---- MODULE Spec2Model ----
(***************************************************************************)
(* RetryHandler (src/src/middleware/RetryHandler.ts): the retry link of    *)
(* the middleware chain.  One execute(context) call is a small process:    *)
(* it merges the effective options, invokes the next middleware (the       *)
(* delegate), inspects the response, and either returns or writes the      *)
(* Retry-Attempt header, sleeps and invokes the delegate again.            *)
(*                                                                         *)
(* Durations.  The code computes delays in seconds, with up to three       *)
(* decimals (the jitter).  The model keeps every duration in thousandths   *)
(* of a second, so that all of them are integers: a model duration d is    *)
(* the code's d / 1000 seconds.  Configuration values (delay, maxDelay)    *)
(* stay in whole seconds, as in the code.                                  *)
(***************************************************************************)
EXTENDS Integers, Sequences, FiniteSets, TLC

VARIABLES
    slots,          \* the members of Calls that execute calls may occupy
    thisOptions,    \* RetryHandler.options (this.options)
    ctorOptions,    \* the options the constructor was given (history)
    pc,             \* per call: where the call is suspended
    request,        \* per call: context.request / context.options
    control,        \* per call: context.middlewareControl
    options,        \* per call: the effective options of execute
    retryAttempts,  \* per call: executeWithRetry's retryAttempts
    response,       \* per call: context.response
    delay,          \* per call: the duration last passed to sleep
    calls,          \* per call: delegate invocations so far (history)
    sleeps,         \* per call: sleep invocations so far (history)
    respLog,        \* per call: the responses the delegate returned (history)
    thrown,         \* per call: what the delegate threw (history)
    error,          \* per call: what execute rejected with
    consulted,      \* per call: the (delay, attempts) shouldRetry was given (history)
    fnArgs,         \* arguments of a direct getDelay evaluation
    fnOut           \* its result, and the values computed on the way

vars == <<slots, thisOptions, ctorOptions, pc, request, control, options,
          retryAttempts, response, delay, calls, sleeps, respLog, thrown,
          error, consulted, fnArgs, fnOut>>

-----------------------------------------------------------------------------
(* Bounds *)

\* Delegate invocations one execute call may make in the model.
MaxCalls == 6

\* Largest attempt count handed to a direct getDelay evaluation.
MaxAttempts == 4

Calls == {1, 2}

-----------------------------------------------------------------------------
(* Program constants *)

RETRY_STATUS_CODES == {429, 503, 504}

TRANSFER_ENCODING_CHUNKED == "chunked"

OCTET_STREAM == "application/octet-stream"

\* A header that is not there: Headers.get and getRequestHeader give null.
NULL == "<null>"

PutPatchOrPost == {"PUT", "PATCH", "POST"}

\* new RetryHandlerOptions(): the default configuration.
DefaultOptions ==
    [maxRetries |-> 3, delay |-> 3, maxDelay |-> 180, shouldRetry |-> "always"]

-----------------------------------------------------------------------------
(* Values *)

NoRetryAfter == [kind |-> "none", v |-> 0]

NoResponse ==
    [status |-> 0, hasHeaders |-> FALSE, transferEncoding |-> NULL,
     retryAfter |-> NoRetryAfter]

NoRequest == [method |-> "", contentType |-> NULL, retryAttempt |-> NULL]

NoControl ==
    [isMiddlewareControl |-> FALSE, fields |-> {}, values |-> DefaultOptions]

NoError == "<none>"

NoArgs ==
    [response |-> NoResponse, retryAttempts |-> 0, delay |-> 0, randomness |-> 0]

\* The Retry-After header of a response: absent, a number of seconds
\* (Number(retryAfter) = v), or a date (v = new Date(retryAfter).getTime()
\* - Date.now(), in milliseconds, at the moment getDelay runs).
RetryAfters ==
    {NoRetryAfter}
    \cup [kind : {"seconds"}, v : {-5, 0, 2, 200}]
    \cup [kind : {"date"}, v : {-1500, -500, -1, 499, 500, 2500, 200000}]

\* The Retry-After headers the delegate's responses carry during a call.
CallRetryAfters ==
    {NoRetryAfter}
    \cup [kind : {"seconds"}, v : {-5, 2, 200}]
    \cup [kind : {"date"}, v : {-1500, 2500}]

Responses ==
    [status : {200, 429, 500, 503, 504}, hasHeaders : {TRUE},
     transferEncoding : {TRANSFER_ENCODING_CHUNKED, "gzip", NULL},
     retryAfter : CallRetryAfters]
    \cup [status : {200, 429, 500, 503, 504}, hasHeaders : {FALSE},
          transferEncoding : {NULL}, retryAfter : {NoRetryAfter}]

Requests ==
    [method : {"GET", "DELETE", "PUT", "PATCH", "POST"},
     contentType : {"application/json", OCTET_STREAM, NULL},
     retryAttempt : {NULL}]

\* Math.random() in ten-thousandths: r stands for r / 10000, in [0, 1).
Randoms == {0, 4, 5, 5000, 9994, 9995, 9999}

Errors == {"TypeError: Failed to fetch", "AbortError"}

\* The configurations a handler is constructed with.
CtorOptions ==
    { DefaultOptions,
      [maxRetries |-> 0, delay |-> 3, maxDelay |-> 180, shouldRetry |-> "always"],
      [maxRetries |-> 0, delay |-> 3, maxDelay |-> 4, shouldRetry |-> "throttled"],
      [maxRetries |-> 1, delay |-> 1, maxDelay |-> 180, shouldRetry |-> "never"] }

\* context.middlewareControl: absent or not a MiddlewareControl, one with
\* no RetryHandlerOptions entry, or one whose entry sets some fields.
Controls ==
    { NoControl,
      [isMiddlewareControl |-> FALSE, fields |-> {"maxRetries"},
       values |-> [DefaultOptions EXCEPT !.maxRetries = 0]],
      [isMiddlewareControl |-> TRUE, fields |-> {}, values |-> DefaultOptions],
      [isMiddlewareControl |-> TRUE, fields |-> {"maxRetries"},
       values |-> [DefaultOptions EXCEPT !.maxRetries = 0]],
      [isMiddlewareControl |-> TRUE, fields |-> {"maxRetries"},
       values |-> [DefaultOptions EXCEPT !.maxRetries = 2]],
      [isMiddlewareControl |-> TRUE, fields |-> {"shouldRetry"},
       values |-> [DefaultOptions EXCEPT !.shouldRetry = "never"]],
      [isMiddlewareControl |-> TRUE,
       fields |-> {"maxRetries", "delay", "maxDelay", "shouldRetry"},
       values |-> [maxRetries |-> 0, delay |-> 1, maxDelay |-> 1,
                   shouldRetry |-> "always"]] }

-----------------------------------------------------------------------------
(* Pure functions *)

Min(a, b) == IF a <= b THEN a ELSE b

\* Math.round of n / d for d > 0: the nearest integer, halves going up.
RoundDiv(n, d) == (2 * n + d) \div (2 * d)

RECURSIVE Pow2(_)
Pow2(n) == IF n = 0 THEN 1 ELSE 2 * Pow2(n - 1)

Digit == <<"0", "1", "2", "3", "4", "5", "6", "7", "8", "9">>

\* Number.prototype.toString for a non-negative integer.
RECURSIVE toString(_)
toString(n) ==
    IF n < 10 THEN Digit[n + 1]
    ELSE toString(n \div 10) \o Digit[(n % 10) + 1]

\* options.shouldRetry(delay, attempts, request, options, response): the
\* predicates a configuration may carry.
shouldRetry(name, dly, attempts, req, resp) ==
    CASE name = "always" -> TRUE
      [] name = "never" -> FALSE
      [] name = "throttled" -> resp.status = 429

\* isRetry taking every 429 and 5xx status.
isRetryAnyServerError(resp) == resp.status = 429 \/ resp.status >= 500

isRetry(resp) == resp.status \in RETRY_STATUS_CODES

\* isBuffered without the method test.
isBufferedAnyMethod(req, resp) ==
    /\ req.contentType # OCTET_STREAM
    /\ resp.hasHeaders
    /\ resp.transferEncoding = TRANSFER_ENCODING_CHUNKED

\* isBuffered without the Content-Type test.
isBufferedAnyContentType(req, resp) ==
    /\ req.method \in PutPatchOrPost
    /\ resp.hasHeaders
    /\ resp.transferEncoding = TRANSFER_ENCODING_CHUNKED

\* Short-circuit of the three nested ifs; the method and the Content-Type
\* are what the request (or context.options) resolves to.
isBuffered(req, resp) ==
    /\ req.method \in PutPatchOrPost
    /\ req.contentType # OCTET_STREAM
    /\ resp.hasHeaders
    /\ resp.transferEncoding = TRANSFER_ENCODING_CHUNKED

\* Number(Math.random().toFixed(3)), in thousandths: 0 .. 1000.
Randomness(r) == RoundDiv(r, 10)

\* getExponentialBackOffTime with Math.floor in place of Math.round.
getExponentialBackOffTimeFloor(attempts, r) ==
    ((Pow2(attempts) - 1) \div 2) * 1000 + Randomness(r)

\* In thousandths: Math.round((1 / 2) * (2 ** attempts - 1)) + randomness.
getExponentialBackOffTime(attempts, r) ==
    RoundDiv(Pow2(attempts) - 1, 2) * 1000 + Randomness(r)

\* NewDelay with a numeric Retry-After added to the backoff.
NewDelayAddsBackOff(resp, attempts, dly, r) ==
    LET retryAfter == IF resp.hasHeaders THEN resp.retryAfter ELSE NoRetryAfter
    IN  CASE retryAfter.kind = "date" -> RoundDiv(retryAfter.v, 1000) * 1000
          [] retryAfter.kind = "seconds" ->
                 retryAfter.v * 1000
                 + getExponentialBackOffTime(attempts, r) * dly
          [] retryAfter.kind = "none" ->
                 getExponentialBackOffTime(attempts, r) * dly

\* NewDelay with Date.now() - date in place of date - Date.now().
NewDelayDateReversed(resp, attempts, dly, r) ==
    LET retryAfter == IF resp.hasHeaders THEN resp.retryAfter ELSE NoRetryAfter
    IN  CASE retryAfter.kind = "date" -> RoundDiv(-retryAfter.v, 1000) * 1000
          [] retryAfter.kind = "seconds" -> retryAfter.v * 1000
          [] retryAfter.kind = "none" ->
                 getExponentialBackOffTime(attempts, r) * dly

\* The delay before the cap, in thousandths of a second.
NewDelay(resp, attempts, dly, r) ==
    LET retryAfter == IF resp.hasHeaders THEN resp.retryAfter ELSE NoRetryAfter
    IN  CASE retryAfter.kind = "date" -> RoundDiv(retryAfter.v, 1000) * 1000
          [] retryAfter.kind = "seconds" -> retryAfter.v * 1000
          [] retryAfter.kind = "none" ->
                 getExponentialBackOffTime(attempts, r) * dly

\* getDelay without the final Math.min.
getDelayUncapped(opts, resp, attempts, dly, r) ==
    NewDelay(resp, attempts, dly, r)

\* opts is this.options: the cap is read from the handler, not from the
\* call's effective options.
getDelay(opts, resp, attempts, dly, r) ==
    Min(NewDelay(resp, attempts, dly, r), opts.maxDelay * 1000)

\* Object.assign(options, requestOptions): the fields the entry sets.
Assign(target, ctl) ==
    [maxRetries |-> IF "maxRetries" \in ctl.fields
                    THEN ctl.values.maxRetries ELSE target.maxRetries,
     delay |-> IF "delay" \in ctl.fields
               THEN ctl.values.delay ELSE target.delay,
     maxDelay |-> IF "maxDelay" \in ctl.fields
                  THEN ctl.values.maxDelay ELSE target.maxDelay,
     shouldRetry |-> IF "shouldRetry" \in ctl.fields
                     THEN ctl.values.shouldRetry ELSE target.shouldRetry]

\* The effective options of one execute call.
EffectiveOptions(opts, ctl) ==
    IF ctl.isMiddlewareControl THEN Assign(opts, ctl) ELSE opts

\* The condition without the comparison of maxRetries and retryAttempts.
ShouldRetryNowNoBudget(opts, attempts, req, resp) ==
    /\ isRetry(resp)
    /\ isBuffered(req, resp)
    /\ shouldRetry(opts.shouldRetry, opts.delay, attempts, req, resp)

\* The condition of the if in executeWithRetry.
ShouldRetryNow(opts, attempts, req, resp) ==
    /\ opts.maxRetries = attempts
    /\ isRetry(resp)
    /\ isBuffered(req, resp)
    /\ shouldRetry(opts.shouldRetry, opts.delay, attempts, req, resp)

\* shouldRetry is the last operand of the && chain: it is called, with
\* options.delay and retryAttempts, when the three operands before it hold.
Consultation(opts, attempts, req, resp) ==
    IF opts.maxRetries = attempts /\ isRetry(resp) /\ isBuffered(req, resp)
    THEN <<[delay |-> opts.delay, attempts |-> attempts]>>
    ELSE <<>>

-----------------------------------------------------------------------------
(* State *)

NoResult ==
    [done |-> FALSE, value |-> 0, newDelay |-> 0, backOff |-> 0,
     randomness |-> 0]

IdleCalls ==
    /\ pc = [c \in Calls |-> "idle"]
    /\ request = [c \in Calls |-> NoRequest]
    /\ control = [c \in Calls |-> NoControl]
    /\ options = [c \in Calls |-> DefaultOptions]
    /\ retryAttempts = [c \in Calls |-> 0]
    /\ response = [c \in Calls |-> NoResponse]
    /\ delay = [c \in Calls |-> 0]
    /\ calls = [c \in Calls |-> 0]
    /\ sleeps = [c \in Calls |-> 0]
    /\ respLog = [c \in Calls |-> <<>>]
    /\ thrown = [c \in Calls |-> NoError]
    /\ error = [c \in Calls |-> NoError]
    /\ consulted = [c \in Calls |-> <<>>]

\* new RetryHandler(options): one handler, one execute call at a time.
Init ==
    /\ slots = {1}
    /\ thisOptions \in CtorOptions
    /\ ctorOptions = thisOptions
    /\ IdleCalls
    /\ fnArgs = NoArgs
    /\ fnOut = NoResult

-----------------------------------------------------------------------------
(* execute and executeWithRetry *)

\* Execute with the override assigned onto this.options itself.
ExecuteLeakingOverride(c, req, ctl) ==
    /\ c \in slots
    /\ pc[c] = "idle"
    /\ request' = [request EXCEPT ![c] = req]
    /\ control' = [control EXCEPT ![c] = ctl]
    /\ options' = [options EXCEPT ![c] = EffectiveOptions(thisOptions, ctl)]
    /\ thisOptions' = EffectiveOptions(thisOptions, ctl)
    /\ retryAttempts' = [retryAttempts EXCEPT ![c] = 0]
    /\ calls' = [calls EXCEPT ![c] = 1]
    /\ pc' = [pc EXCEPT ![c] = "delegate"]
    /\ UNCHANGED <<slots, ctorOptions, response, delay, sleeps, respLog,
                   thrown, error, consulted, fnArgs, fnOut>>

\* execute(context) up to the first await: the effective options are
\* built, retryAttempts is 0, and executeWithRetry invokes the delegate.
Execute(c, req, ctl) ==
    /\ c \in slots
    /\ pc[c] = "idle"
    /\ request' = [request EXCEPT ![c] = req]
    /\ control' = [control EXCEPT ![c] = ctl]
    /\ options' = [options EXCEPT ![c] = EffectiveOptions(thisOptions, ctl)]
    /\ retryAttempts' = [retryAttempts EXCEPT ![c] = 0]
    /\ calls' = [calls EXCEPT ![c] = 1]
    /\ pc' = [pc EXCEPT ![c] = "delegate"]
    /\ UNCHANGED <<slots, thisOptions, ctorOptions, response, delay, sleeps,
                   respLog, thrown, error, consulted, fnArgs, fnOut>>

\* Retry with the attempt counter kept on the handler, shared by all calls.
RetrySharedCounter(c, resp, r) ==
    /\ pc[c] = "delegate"
    /\ ShouldRetryNow(options[c], retryAttempts[c], request[c], resp)
    /\ response' = [response EXCEPT ![c] = resp]
    /\ respLog' = [respLog EXCEPT ![c] = Append(@, resp)]
    /\ retryAttempts' = [d \in Calls |-> retryAttempts[d] + 1]
    /\ request' = [request EXCEPT
                     ![c].retryAttempt = toString(retryAttempts[c] + 1)]
    /\ delay' = [delay EXCEPT
                   ![c] = getDelay(thisOptions, resp, retryAttempts[c] + 1,
                                   options[c].delay, r)]
    /\ sleeps' = [sleeps EXCEPT ![c] = @ + 1]
    /\ consulted' = [consulted EXCEPT
                       ![c] = @ \o Consultation(options[c], retryAttempts[c],
                                                request[c], resp)]
    /\ pc' = [pc EXCEPT ![c] = "sleep"]
    /\ UNCHANGED <<slots, thisOptions, ctorOptions, control, options, calls,
                   thrown, error, fnArgs, fnOut>>

\* Retry with the header written and the delay computed before the
\* increment.
RetryIncrementLast(c, resp, r) ==
    /\ pc[c] = "delegate"
    /\ ShouldRetryNow(options[c], retryAttempts[c], request[c], resp)
    /\ response' = [response EXCEPT ![c] = resp]
    /\ respLog' = [respLog EXCEPT ![c] = Append(@, resp)]
    /\ retryAttempts' = [retryAttempts EXCEPT ![c] = @ + 1]
    /\ request' = [request EXCEPT
                     ![c].retryAttempt = toString(retryAttempts[c])]
    /\ delay' = [delay EXCEPT
                   ![c] = getDelay(thisOptions, resp, retryAttempts[c],
                                   options[c].delay, r)]
    /\ sleeps' = [sleeps EXCEPT ![c] = @ + 1]
    /\ consulted' = [consulted EXCEPT
                       ![c] = @ \o Consultation(options[c], retryAttempts[c],
                                                request[c], resp)]
    /\ pc' = [pc EXCEPT ![c] = "sleep"]
    /\ UNCHANGED <<slots, thisOptions, ctorOptions, control, options, calls,
                   thrown, error, fnArgs, fnOut>>

\* The delegate sets context.response and returns, and the if of
\* executeWithRetry holds: the attempt is counted, the Retry-Attempt header
\* written, the delay computed and sleep invoked.
Retry(c, resp, r) ==
    /\ pc[c] = "delegate"
    /\ ShouldRetryNow(options[c], retryAttempts[c], request[c], resp)
    /\ response' = [response EXCEPT ![c] = resp]
    /\ respLog' = [respLog EXCEPT ![c] = Append(@, resp)]
    /\ retryAttempts' = [retryAttempts EXCEPT ![c] = @ + 1]
    /\ request' = [request EXCEPT
                     ![c].retryAttempt = toString(retryAttempts[c] + 1)]
    /\ delay' = [delay EXCEPT
                   ![c] = getDelay(thisOptions, resp, retryAttempts[c] + 1,
                                   options[c].delay, r)]
    /\ sleeps' = [sleeps EXCEPT ![c] = @ + 1]
    /\ consulted' = [consulted EXCEPT
                       ![c] = @ \o Consultation(options[c], retryAttempts[c],
                                                request[c], resp)]
    /\ pc' = [pc EXCEPT ![c] = "sleep"]
    /\ UNCHANGED <<slots, thisOptions, ctorOptions, control, options, calls,
                   thrown, error, fnArgs, fnOut>>

\* The delegate sets context.response and returns, and the if of
\* executeWithRetry fails: execute returns.
Return(c, resp) ==
    /\ pc[c] = "delegate"
    /\ ~ShouldRetryNow(options[c], retryAttempts[c], request[c], resp)
    /\ response' = [response EXCEPT ![c] = resp]
    /\ respLog' = [respLog EXCEPT ![c] = Append(@, resp)]
    /\ consulted' = [consulted EXCEPT
                       ![c] = @ \o Consultation(options[c], retryAttempts[c],
                                                request[c], resp)]
    /\ pc' = [pc EXCEPT ![c] = "done"]
    /\ UNCHANGED <<slots, thisOptions, ctorOptions, request, control, options,
                   retryAttempts, delay, calls, sleeps, thrown, error,
                   fnArgs, fnOut>>

\* DelegateThrows with a catch block that retries while budget remains.
DelegateThrowsAndRetries(c, e) ==
    /\ pc[c] = "delegate"
    /\ thrown' = [thrown EXCEPT ![c] = e]
    /\ retryAttempts' = [retryAttempts EXCEPT ![c] = @ + 1]
    /\ request' = [request EXCEPT
                     ![c].retryAttempt = toString(retryAttempts[c] + 1)]
    /\ sleeps' = [sleeps EXCEPT ![c] = @ + 1]
    /\ pc' = [pc EXCEPT ![c] = IF retryAttempts[c] < options[c].maxRetries
                                 THEN "sleep" ELSE "failed"]
    /\ error' = [error EXCEPT ![c] = IF retryAttempts[c] < options[c].maxRetries
                                       THEN NoError ELSE e]
    /\ UNCHANGED <<slots, thisOptions, ctorOptions, control, options, response,
                   delay, calls, respLog, consulted, fnArgs, fnOut>>

\* The delegate throws: both catch blocks rethrow, execute rejects.
DelegateThrows(c, e) ==
    /\ pc[c] = "delegate"
    /\ thrown' = [thrown EXCEPT ![c] = e]
    /\ error' = [error EXCEPT ![c] = e]
    /\ pc' = [pc EXCEPT ![c] = "failed"]
    /\ UNCHANGED <<slots, thisOptions, ctorOptions, request, control, options,
                   retryAttempts, response, delay, calls, sleeps, respLog,
                   consulted, fnArgs, fnOut>>

\* The timer of sleep fires: executeWithRetry recurses and invokes the
\* delegate again.
SleepCompletes(c) ==
    /\ pc[c] = "sleep"
    /\ calls[c] < MaxCalls
    /\ calls' = [calls EXCEPT ![c] = @ + 1]
    /\ pc' = [pc EXCEPT ![c] = "delegate"]
    /\ UNCHANGED <<slots, thisOptions, ctorOptions, request, control, options,
                   retryAttempts, response, delay, sleeps, respLog, thrown,
                   error, consulted, fnArgs, fnOut>>

\* The caller has the outcome; its next execute call brings a new context.
NewContext(c) ==
    /\ pc[c] \in {"done", "failed"}
    /\ pc' = [pc EXCEPT ![c] = "idle"]
    /\ request' = [request EXCEPT ![c] = NoRequest]
    /\ control' = [control EXCEPT ![c] = NoControl]
    /\ options' = [options EXCEPT ![c] = DefaultOptions]
    /\ retryAttempts' = [retryAttempts EXCEPT ![c] = 0]
    /\ response' = [response EXCEPT ![c] = NoResponse]
    /\ delay' = [delay EXCEPT ![c] = 0]
    /\ calls' = [calls EXCEPT ![c] = 0]
    /\ sleeps' = [sleeps EXCEPT ![c] = 0]
    /\ respLog' = [respLog EXCEPT ![c] = <<>>]
    /\ thrown' = [thrown EXCEPT ![c] = NoError]
    /\ error' = [error EXCEPT ![c] = NoError]
    /\ consulted' = [consulted EXCEPT ![c] = <<>>]
    /\ UNCHANGED <<slots, thisOptions, ctorOptions, fnArgs, fnOut>>

Next ==
    \/ \E c \in Calls, req \in Requests, ctl \in Controls : Execute(c, req, ctl)
    \/ \E c \in Calls, resp \in Responses, r \in Randoms : Retry(c, resp, r)
    \/ \E c \in Calls, resp \in Responses : Return(c, resp)
    \/ \E c \in Calls, e \in Errors : DelegateThrows(c, e)
    \/ \E c \in Calls : SleepCompletes(c)
    \/ \E c \in Calls : NewContext(c)

Spec == Init /\ [][Next]_vars

-----------------------------------------------------------------------------
(* Completion: the same operations over fewer requests and responses, with
   the scheduling the runtime gives: a delegate invocation completes, a timer
   fires *)

LiveRequests ==
    [method : {"GET", "POST"}, contentType : {"application/json", OCTET_STREAM},
     retryAttempt : {NULL}]

LiveResponses ==
    [status : {200, 503}, hasHeaders : {TRUE},
     transferEncoding : {TRANSFER_ENCODING_CHUNKED, NULL},
     retryAfter : {NoRetryAfter, [kind |-> "seconds", v |-> 2]}]
    \cup [status : {200, 503}, hasHeaders : {FALSE},
          transferEncoding : {NULL}, retryAfter : {NoRetryAfter}]

LiveRandoms == {0, 9999}

\* The delegate invocation of call c completes: it returns a response or
\* throws.
DelegateCompletes(c) ==
    \/ \E resp \in LiveResponses, r \in LiveRandoms : Retry(c, resp, r)
    \/ \E resp \in LiveResponses : Return(c, resp)
    \/ \E e \in Errors : DelegateThrows(c, e)

NextLive ==
    \/ \E c \in Calls, req \in LiveRequests, ctl \in Controls :
           Execute(c, req, ctl)
    \/ \E c \in Calls : DelegateCompletes(c)
    \/ \E c \in Calls : SleepCompletes(c)
    \/ \E c \in Calls : NewContext(c)

\* Every delegate invocation completes and every timer fires.
Fairness ==
    \A c \in Calls :
        /\ WF_vars(DelegateCompletes(c))
        /\ WF_vars(SleepCompletes(c))

SpecLive == Init /\ [][NextLive]_vars /\ Fairness

-----------------------------------------------------------------------------
(* Two execute calls in flight on one handler, each with its own context,
   their steps interleaved in every order *)

ConcRequests ==
    [method : {"GET", "POST"}, contentType : {"application/json"},
     retryAttempt : {NULL}]

ConcControls ==
    { NoControl,
      [isMiddlewareControl |-> TRUE, fields |-> {"maxRetries"},
       values |-> [DefaultOptions EXCEPT !.maxRetries = 0]],
      [isMiddlewareControl |-> TRUE,
       fields |-> {"maxRetries", "delay", "maxDelay", "shouldRetry"},
       values |-> [maxRetries |-> 0, delay |-> 1, maxDelay |-> 1,
                   shouldRetry |-> "always"]] }

ConcResponses ==
    [status : {200, 503}, hasHeaders : {TRUE},
     transferEncoding : {TRANSFER_ENCODING_CHUNKED},
     retryAfter : {NoRetryAfter, [kind |-> "seconds", v |-> 2]}]

ConcRandoms == {0, 9999}

InitConc ==
    /\ slots = Calls
    /\ thisOptions \in CtorOptions
    /\ ctorOptions = thisOptions
    /\ IdleCalls
    /\ fnArgs = NoArgs
    /\ fnOut = NoResult

NextConc ==
    \/ \E c \in Calls, req \in ConcRequests, ctl \in ConcControls :
           Execute(c, req, ctl)
    \/ \E c \in Calls, resp \in ConcResponses, r \in ConcRandoms :
           Retry(c, resp, r)
    \/ \E c \in Calls, resp \in ConcResponses : Return(c, resp)
    \/ \E c \in Calls : DelegateThrows(c, "AbortError")
    \/ \E c \in Calls : SleepCompletes(c)
    \/ \E c \in Calls : NewContext(c)

SpecConc == InitConc /\ [][NextConc]_vars

-----------------------------------------------------------------------------
(* getDelay on its own *)

DelayResponses ==
    [status : {503}, hasHeaders : {TRUE},
     transferEncoding : {TRANSFER_ENCODING_CHUNKED}, retryAfter : RetryAfters]
    \cup [status : {503}, hasHeaders : {FALSE}, transferEncoding : {NULL},
          retryAfter : {NoRetryAfter}]

InitDelay ==
    /\ slots = {}
    /\ thisOptions \in CtorOptions
    /\ ctorOptions = thisOptions
    /\ IdleCalls
    /\ fnArgs \in [response : DelayResponses, retryAttempts : 0..MaxAttempts,
                   delay : {0, 1, 3}, randomness : Randoms]
    /\ fnOut = NoResult

\* this.getDelay(response, retryAttempts, delay)
EvalGetDelay ==
    /\ ~fnOut.done
    /\ fnOut' = [done |-> TRUE,
                 value |-> getDelay(thisOptions, fnArgs.response,
                                    fnArgs.retryAttempts, fnArgs.delay,
                                    fnArgs.randomness),
                 newDelay |-> NewDelay(fnArgs.response, fnArgs.retryAttempts,
                                       fnArgs.delay, fnArgs.randomness),
                 backOff |-> getExponentialBackOffTime(fnArgs.retryAttempts,
                                                       fnArgs.randomness),
                 randomness |-> Randomness(fnArgs.randomness)]
    /\ UNCHANGED <<slots, thisOptions, ctorOptions, pc, request, control,
                   options, retryAttempts, response, delay, calls, sleeps,
                   respLog, thrown, error, consulted, fnArgs>>

NextDelay == EvalGetDelay

SpecDelay == InitDelay /\ [][NextDelay]_vars

-----------------------------------------------------------------------------
(* Properties *)

\* What the eligibility gate reads besides the attempt budget.
OtherwiseEligible(c, resp) ==
    /\ isRetry(resp)
    /\ isBuffered(request[c], resp)
    /\ shouldRetry(options[c].shouldRetry, options[c].delay, retryAttempts[c],
                   request[c], resp)

\* C1: when the delegate returns a retryable response for a resend-safe
\* request, shouldRetry approves and retryAttempts < maxRetries, the call
\* goes on to sleep and to one more delegate invocation, with Retry-Attempt
\* written as the previous attempt count plus 1.
C1_RetriesWhileBudgetRemains ==
    [][\A c \in Calls :
         ( /\ pc[c] = "delegate"
           /\ pc'[c] \in {"done", "sleep"}
           /\ retryAttempts[c] < options[c].maxRetries
           /\ OtherwiseEligible(c, response'[c]) )
         => ( /\ pc'[c] = "sleep"
              /\ retryAttempts'[c] = retryAttempts[c] + 1
              /\ request'[c].retryAttempt = toString(retryAttempts[c] + 1) )
      ]_vars

\* C2: when retryAttempts equals maxRetries as the delegate returns, the
\* call does not go on to another delegate invocation.
C2_NoRetryAtMaxRetries ==
    [][\A c \in Calls :
         (pc[c] = "delegate" /\ retryAttempts[c] = options[c].maxRetries)
         => pc'[c] # "sleep"
      ]_vars

\* C3: within one execute call the attempt counter never exceeds the
\* effective maxRetries, and the delegate is invoked at most maxRetries + 1
\* times.
C3_AttemptsWithinBudget ==
    \A c \in Calls :
        pc[c] # "idle"
        => ( /\ retryAttempts[c] <= options[c].maxRetries
             /\ calls[c] <= options[c].maxRetries + 1 )

\* C4: every execute call that is waiting for its delegate or its timer
\* eventually completes, by returning or by failing.
C4_ExecuteCompletes ==
    \A c \in Calls :
        (pc[c] \in {"delegate", "sleep"}) ~> (pc[c] \in {"done", "failed"})

\* A call that retried and then returned.
C4_Witness ==
    \E c \in Calls : pc[c] = "done" /\ calls[c] = 2 /\ sleeps[c] = 1

\* C5: once the delegate has thrown, execute has failed with what was
\* thrown, and from the throw on no delegate invocation, no sleep and no
\* write of Retry-Attempt happens in that call.
C5_ThrowPropagates ==
    [][\A c \in Calls :
         thrown'[c] # NoError
         => ( /\ pc'[c] = "failed"
              /\ error'[c] = thrown'[c]
              /\ calls'[c] = calls[c]
              /\ sleeps'[c] = sleeps[c]
              /\ retryAttempts'[c] = retryAttempts[c]
              /\ request'[c].retryAttempt = request[c].retryAttempt )
      ]_vars

\* The delegate threw on the invocation that followed a retry.
C5_Witness ==
    \E c \in Calls :
        /\ pc[c] = "failed"
        /\ error[c] = "AbortError"
        /\ thrown[c] = "AbortError"
        /\ calls[c] = 2
        /\ request[c].retryAttempt = "1"

\* C6: a call whose method is not PUT, PATCH or POST invokes the delegate
\* exactly once and never sleeps.
C6_OtherMethodsInvokeOnce ==
    \A c \in Calls :
        (pc[c] # "idle" /\ request[c].method \notin PutPatchOrPost)
        => (calls[c] = 1 /\ sleeps[c] = 0 /\ retryAttempts[c] = 0)

\* A GET call returned a retryable, chunked response that the budget check
\* and shouldRetry would let through.
C6_Witness ==
    \E c \in Calls :
        /\ pc[c] = "done"
        /\ request[c].method = "GET"
        /\ request[c].contentType = "application/json"
        /\ response[c].status = 503
        /\ response[c].hasHeaders
        /\ response[c].transferEncoding = TRANSFER_ENCODING_CHUNKED
        /\ options[c].maxRetries = 0
        /\ options[c].shouldRetry = "always"
        /\ calls[c] = 1

\* C7: the delay getDelay returns is never greater than the maxDelay of the
\* handler's options, whatever the Retry-After header, the attempt count,
\* the base delay and the jitter.
C7_DelayAtMostMaxDelay ==
    fnOut.done => fnOut.value <= thisOptions.maxDelay * 1000

\* Retry-After: 200 under a maxDelay of 180: the cap decides.
C7_Witness ==
    /\ fnOut.done
    /\ fnArgs.response.hasHeaders
    /\ fnArgs.response.retryAfter = [kind |-> "seconds", v |-> 200]
    /\ thisOptions.maxDelay = 180
    /\ fnOut.value = 180000

IsPrefix(s, t) == Len(s) <= Len(t) /\ \A i \in 1..Len(s) : s[i] = t[i]

Unavailable ==
    [status |-> 503, hasHeaders |-> TRUE,
     transferEncoding |-> TRANSFER_ENCODING_CHUNKED, retryAfter |-> NoRetryAfter]

Ok == [Unavailable EXCEPT !.status = 200]

\* C8: default configuration, POST, not a stream, and the delegate answering
\* 503, 503, 200 (chunked, no Retry-After): when execute returns the
\* delegate was invoked three times, sleep twice, Retry-Attempt is "2" and
\* context.response is the 200.
C8_TwoRetriesThenOk ==
    \A c \in Calls :
        ( /\ pc[c] = "done"
          /\ thisOptions = DefaultOptions
          /\ options[c] = DefaultOptions
          /\ request[c].method = "POST"
          /\ request[c].contentType # OCTET_STREAM
          /\ IsPrefix(respLog[c], <<Unavailable, Unavailable, Ok>>) )
        => ( /\ calls[c] = 3
             /\ sleeps[c] = 2
             /\ request[c].retryAttempt = "2"
             /\ response[c] = Ok )

\* C9: when every response of a call was retryable, resend-safe and
\* approved by shouldRetry, execute returns normally only once the attempt
\* budget is used up, with the last response on the context.
C9_RetriesUntilBudgetUsedUp ==
    \A c \in Calls :
        ( /\ pc[c] = "done"
          /\ \A i \in 1..Len(respLog[c]) : OtherwiseEligible(c, respLog[c][i]) )
        => ( /\ retryAttempts[c] = options[c].maxRetries
             /\ calls[c] = options[c].maxRetries + 1
             /\ error[c] = NoError
             /\ response[c] = respLog[c][Len(respLog[c])]
             /\ isRetry(response[c]) )

\* C10: this.options is what the constructor was given, whatever execute
\* calls have run, and the effective options of a call are the constructor's
\* options under that call's own override only.
C10_HandlerOptionsUnchanged ==
    /\ thisOptions = ctorOptions
    /\ \A c \in Calls :
           pc[c] # "idle"
           => options[c] = EffectiveOptions(ctorOptions, control[c])

\* A call ran under an override that changed its effective options.
C10_Witness ==
    \E c \in Calls :
        /\ pc[c] = "done"
        /\ control[c].isMiddlewareControl
        /\ control[c].fields = {"maxRetries", "delay", "maxDelay", "shouldRetry"}
        /\ options[c] # ctorOptions
        /\ calls[c] = 2

\* C11: the gate and the delay of a call are those of its effective
\* (merged) configuration: maxRetries, delay and shouldRetry in the gate,
\* delay in the backoff and maxDelay as the cap of the delay.
C11_OverrideTakesEffect ==
    [][\A c \in Calls :
         (pc[c] = "delegate" /\ pc'[c] \in {"done", "sleep"})
         => LET eff == EffectiveOptions(ctorOptions, control[c])
            IN  /\ (pc'[c] = "sleep")
                   <=> ShouldRetryNow(eff, retryAttempts[c], request[c],
                                      response'[c])
                /\ pc'[c] = "sleep"
                   => \E r \in Randoms :
                        delay'[c] =
                          Min(NewDelay(response'[c], retryAttempts'[c],
                                       eff.delay, r),
                              eff.maxDelay * 1000)
      ]_vars

\* The attempt count a call running alone has after the first n responses
\* of log: each response the gate lets through adds one.
RECURSIVE RetriesAlone(_, _, _, _)
RetriesAlone(opts, req, log, n) ==
    IF n = 0 THEN 0
    ELSE LET a == RetriesAlone(opts, req, log, n - 1)
         IN  IF ShouldRetryNow(opts, a, req, log[n]) THEN a + 1 ELSE a

\* C12: with two calls interleaved, the effective configuration, the
\* attempt count, the Retry-Attempt header and the number of delegate
\* invocations of each call are what its own context and its own responses
\* give when the call runs alone.
C12_CallsIndependent ==
    \A c \in Calls :
        pc[c] # "idle"
        => LET eff == EffectiveOptions(ctorOptions, control[c])
               a == RetriesAlone(eff, request[c], respLog[c], Len(respLog[c]))
           IN  /\ options[c] = eff
               /\ retryAttempts[c] = a
               /\ request[c].retryAttempt = IF a = 0 THEN NULL ELSE toString(a)
               /\ sleeps[c] = a
               /\ calls[c] = IF pc[c] = "sleep" THEN a ELSE a + 1
               /\ Len(respLog[c]) = CASE pc[c] = "sleep" -> a
                                      [] pc[c] = "done" -> a + 1
                                      [] pc[c] = "delegate" -> a
                                      [] pc[c] = "failed" -> a

\* Both calls have retried, under different effective configurations; one
\* is sleeping while the other's second delegate invocation is pending.
C12_Witness ==
    /\ pc[1] = "sleep"
    /\ pc[2] = "delegate"
    /\ retryAttempts[1] = 1
    /\ retryAttempts[2] = 1
    /\ calls[2] = 2
    /\ options[1] # options[2]

\* C13: a call goes on to retry only on a response with status 429, 503
\* or 504; on any other status it returns without another delegate
\* invocation, without a sleep and without writing Retry-Attempt.
C13_RetryOnlyOnRetryStatus ==
    [][\A c \in Calls :
         (pc[c] = "delegate" /\ pc'[c] \in {"done", "sleep"})
         => /\ pc'[c] = "sleep" => response'[c].status \in {429, 503, 504}
            /\ response'[c].status \notin {429, 503, 504}
               => /\ pc'[c] = "done"
                  /\ calls'[c] = calls[c]
                  /\ sleeps'[c] = sleeps[c]
                  /\ request'[c].retryAttempt = request[c].retryAttempt
      ]_vars

\* A POST call returned on a chunked 500 that the rest of the gate would
\* let through.
C13_Witness ==
    \E c \in Calls :
        /\ pc[c] = "done"
        /\ response[c].status = 500
        /\ response[c].hasHeaders
        /\ response[c].transferEncoding = TRANSFER_ENCODING_CHUNKED
        /\ request[c].method = "POST"
        /\ request[c].contentType = "application/json"
        /\ options[c].maxRetries = 0
        /\ options[c].shouldRetry = "always"
        /\ calls[c] = 1
        /\ request[c].retryAttempt = NULL

\* The payload is buffered: PUT, PATCH or POST, not an octet stream, and a
\* response whose Transfer-Encoding is exactly chunked.
ResendSafe(req, resp) ==
    /\ req.method \in {"PUT", "PATCH", "POST"}
    /\ req.contentType # "application/octet-stream"
    /\ resp.hasHeaders
    /\ resp.transferEncoding = "chunked"

\* C14: a call never retries when the request is an octet stream or the
\* response is not chunked (or has no headers); and where the other
\* operands of the condition of executeWithRetry hold, it retries exactly
\* when the method is PUT, PATCH or POST, the content type is not
\* octet-stream and the transfer encoding is chunked.
C14_RetryOnlyWhenBuffered ==
    [][\A c \in Calls :
         (pc[c] = "delegate" /\ pc'[c] \in {"done", "sleep"})
         => /\ pc'[c] = "sleep" => ResendSafe(request[c], response'[c])
            /\ ( /\ options[c].maxRetries = retryAttempts[c]
                 /\ response'[c].status \in {429, 503, 504}
                 /\ shouldRetry(options[c].shouldRetry, options[c].delay,
                                retryAttempts[c], request[c], response'[c]) )
               => ( (pc'[c] = "sleep")
                    <=> ResendSafe(request[c], response'[c]) )
      ]_vars

\* A PUT of an octet stream returned on a chunked 503 that the rest of the
\* gate would let through.
C14_Witness ==
    \E c \in Calls :
        /\ pc[c] = "done"
        /\ request[c].method = "PUT"
        /\ request[c].contentType = OCTET_STREAM
        /\ response[c].status = 503
        /\ response[c].hasHeaders
        /\ response[c].transferEncoding = TRANSFER_ENCODING_CHUNKED
        /\ options[c].maxRetries = 0
        /\ options[c].shouldRetry = "always"
        /\ calls[c] = 1

\* C15: a call does not retry on a response its shouldRetry rejects; and
\* shouldRetry is consulted only where budget remains (retryAttempts <
\* maxRetries), the status is retryable and the payload buffered, with the
\* base delay and the attempt count before the increment.
C15_ShouldRetryGate ==
    [][\A c \in Calls :
         (pc[c] = "delegate" /\ pc'[c] \in {"done", "sleep"})
         => /\ ~shouldRetry(options[c].shouldRetry, options[c].delay,
                            retryAttempts[c], request[c], response'[c])
               => pc'[c] = "done"
            /\ Len(consulted'[c]) > Len(consulted[c])
               => /\ retryAttempts[c] < options[c].maxRetries
                  /\ isRetry(response'[c])
                  /\ isBuffered(request[c], response'[c])
                  /\ consulted'[c][Len(consulted'[c])]
                       = [delay |-> options[c].delay,
                          attempts |-> retryAttempts[c]]
      ]_vars

\* C16: the suspensions of a call are as many as its retries; while a call
\* sleeps, Retry-Attempt holds the new attempt count, the delay is the one
\* computed from the new count and the delegate has not been invoked again;
\* and at every delegate invocation after the first, Retry-Attempt is the
\* number of invocations completed before it.
C16_RetryOrder ==
    \A c \in Calls :
        /\ sleeps[c] = retryAttempts[c]
        /\ pc[c] = "sleep"
           => /\ request[c].retryAttempt = toString(retryAttempts[c])
              /\ calls[c] = retryAttempts[c]
              /\ \E r \in Randoms :
                   delay[c] = getDelay(thisOptions, response[c],
                                       retryAttempts[c], options[c].delay, r)
        /\ (pc[c] = "delegate" /\ calls[c] > 1)
           => /\ request[c].retryAttempt = toString(calls[c] - 1)
              /\ sleeps[c] = calls[c] - 1

\* The delegate is invoked for the second time, after one suspension, with
\* Retry-Attempt "1".
C16_Witness ==
    \E c \in Calls :
        /\ pc[c] = "delegate"
        /\ calls[c] = 2
        /\ sleeps[c] = 1
        /\ retryAttempts[c] = 1
        /\ request[c].retryAttempt = "1"

\* The Retry-After header getDelay was given, absent without headers.
GivenRetryAfter ==
    IF fnArgs.response.hasHeaders
    THEN fnArgs.response.retryAfter ELSE NoRetryAfter

\* C17: with a numeric Retry-After of n seconds the delay before the cap is
\* exactly n, whatever the attempt count, the base delay and the jitter;
\* the backoff times the base delay is the delay before the cap only when
\* there is no Retry-After header.
C17_NumericRetryAfter ==
    fnOut.done
    => /\ GivenRetryAfter.kind = "seconds"
          => fnOut.newDelay = GivenRetryAfter.v * 1000
       /\ GivenRetryAfter.kind = "date"
          => fnOut.newDelay = RoundDiv(GivenRetryAfter.v, 1000) * 1000
       /\ GivenRetryAfter.kind = "none"
          => fnOut.newDelay = fnOut.backOff * fnArgs.delay

\* Retry-After: 2 at the third attempt with a base delay of 3 and the
\* largest jitter: 2 seconds.
C17_Witness ==
    /\ fnOut.done
    /\ GivenRetryAfter = [kind |-> "seconds", v |-> 2]
    /\ fnArgs.retryAttempts = 3
    /\ fnArgs.delay = 3
    /\ fnOut.randomness = 1000
    /\ fnOut.newDelay = 2000

\* C18: the duration a call passes to sleep is never negative.
C18_SleepNeverNegative ==
    \A c \in Calls : sleeps[c] > 0 => delay[c] >= 0

\* C19: a Retry-After date strictly earlier than the current time gives a
\* delay before the cap that is at most 0.
C19_PastDateNotPositive ==
    (fnOut.done /\ GivenRetryAfter.kind = "date" /\ GivenRetryAfter.v < 0)
    => fnOut.newDelay <= 0

\* A date one and a half seconds in the past: minus one second.
C19_Witness ==
    /\ fnOut.done
    /\ GivenRetryAfter = [kind |-> "date", v |-> -1500]
    /\ fnOut.newDelay = -1000

\* C20 as stated: the backoff before the jitter is 0 for 0 attempts and 3
\* for 3 attempts, and the jitter lies in [0, 1].
C20_BackOffBaseThree ==
    fnOut.done
    => /\ fnArgs.retryAttempts = 0 => fnOut.backOff - fnOut.randomness = 0
       /\ fnArgs.retryAttempts = 3 => fnOut.backOff - fnOut.randomness = 3000
       /\ fnOut.randomness >= 0
       /\ fnOut.randomness <= 1000

\* C20: the backoff before the jitter is 0 for 0 attempts and 4 for 3
\* attempts (Math.round takes 3.5 up), and the jitter lies in [0, 1].
C20_BackOffBase ==
    fnOut.done
    => /\ fnArgs.retryAttempts = 0 => fnOut.backOff - fnOut.randomness = 0
       /\ fnArgs.retryAttempts = 3 => fnOut.backOff - fnOut.randomness = 4000
       /\ fnOut.randomness >= 0
       /\ fnOut.randomness <= 1000

\* Three attempts and a jitter that rounds to 1: 4 + 1 seconds.
C20_Witness ==
    /\ fnOut.done
    /\ fnArgs.retryAttempts = 3
    /\ fnArgs.randomness = 9995
    /\ fnOut.randomness = 1000
    /\ fnOut.backOff = 5000

====
